---- MODULE Spec2Model ----
(***************************************************************************)
(* State-machine model of src/main.py (VLR.gg scraper API): get_match,     *)
(* fetch_team_roster, fetch_player_image, parse_player_row,                *)
(* get_live_matches and the image-URL normalisation sites.                 *)
(*                                                                         *)
(* Texts that the code inspects (URLs, map names, stat cells) are          *)
(* sequences of characters.  A run of characters that no operation of the  *)
(* code looks into (a host name, a file name) is written as one element.   *)
(***************************************************************************)
EXTENDS Integers, Sequences, FiniteSets, TLC

VARIABLES
    site,              \* the scraped site: how large its documents get
    rpc,               \* fetch_team_roster: position of the running call
    n_items,           \* fetch_team_roster: len(player_items)
    first_pass,        \* fetch_team_roster: player_data_list as the first pass left it
    player_data_list,  \* fetch_team_roster: player_data_list
    task_indices,      \* fetch_team_roster: task_indices
    results,           \* fetch_team_roster: the gathered tasks, in task order
    roster_ret,        \* fetch_team_roster: the returned list
    roster_team,       \* fetch_team_roster: which team's roster the call is for
    sent,              \* transport: number of GETs issued per document
    answered,          \* transport: how the GET of each answered document ended
    pc,                \* get_match: position of the request
    teams,             \* get_match: teams
    team_ids,          \* get_match: team_ids
    player_containers, \* get_match: the texts of player_containers
    map_containers,    \* get_match: map_containers
    team1_roster,      \* get_match: team1_roster
    team2_roster,      \* get_match: team2_roster
    event,             \* get_match: event
    response,          \* get_match: the returned record, or the raised error
    row_pc,            \* parse_player_row: "call" before, "done" after the call
    row_in,            \* parse_player_row: its arguments row, teams, table_index
    row_out,           \* parse_player_row: what it returned
    img_pc,            \* image resolution: "call" before, "done" after the call
    img_in,            \* image resolution: the fragment or source text given
    img_out,           \* image resolution: the URL(s) it produced
    live_pc,           \* get_live_matches: position of the request
    live_items,        \* get_live_matches: match_items
    live_ret           \* get_live_matches: the returned record, or the raised error

rosterVars == <<rpc, n_items, first_pass, player_data_list, task_indices,
                results, roster_ret, roster_team>>

rowVars == <<row_pc, row_in, row_out>>

imgVars == <<img_pc, img_in, img_out>>

liveVars == <<live_pc, live_items, live_ret>>

matchVars == <<pc, teams, team_ids, player_containers, map_containers,
               team1_roster, team2_roster, event, response>>

netVars == <<sent, answered>>

vars == <<site, rosterVars, netVars, matchVars, rowVars, imgVars, liveVars>>

-----------------------------------------------------------------------------
(* Bounds *)

MaxItems == 6          \* roster items on a team page (standalone roster call)
MaxCells == 13         \* stat cells of a scoreboard row
MaxMatchItems == 2     \* roster items on a team page fetched for a match
MaxImgs == 2           \* img elements of one fragment (profile header, roster item)
MaxLiveItems == 2      \* match items on the home page
MaxInline == 2         \* inline roster-preview nodes on a match page
MaxMaps == 2           \* map blocks on a match page
MaxTables == 2         \* stat tables in a map block

(* Program constants *)

MaxPlayers == 5        \* player_items[:5]
LineupSize == 5        \* team1_roster[:5], team2_roster[:5]
HeaderTeamCount == 2   \* team_elements[:2], team_links[:2], score_els[:2]

-----------------------------------------------------------------------------
(* Texts *)

Empty == <<>>

StartsWith(s, p) == Len(s) >= Len(p) /\ SubSeq(s, 1, Len(p)) = p

Min(a, b) == IF a <= b THEN a ELSE b

Https == <<"h", "t", "t", "p", "s", ":">>
Http == <<"h", "t", "t", "p">>
Origin == Https \o <<"/", "/", "www.vlr.gg">>
Placeholder == <<"/", "img/base/ph/sil.png">>

\* img.get("src", "") or img.get("data-src", "") or img.get("data-lazy-src", "")
ImgAttr(img) ==
    IF img.src # Empty THEN img.src
    ELSE IF img.data_src # Empty THEN img.data_src
    ELSE img.lazy_src

\* the first src of imgs that is non-empty and not the placeholder, else ""
RECURSIVE FirstRealSrc(_)
FirstRealSrc(imgs) ==
    IF imgs = <<>> THEN Empty
    ELSE IF ImgAttr(Head(imgs)) # Empty /\ ImgAttr(Head(imgs)) # Placeholder
         THEN ImgAttr(Head(imgs))
         ELSE FirstRealSrc(Tail(imgs))

-----------------------------------------------------------------------------
(* Numbers.  A float is [kind |-> "num", v |-> hundredths], or "inf" with *)
(* v its sign, or "nan"; the cell texts of the model have at most two     *)
(* decimals, so hundredths are exact.                                     *)

Scale == 100

Digits == <<"0", "1", "2", "3", "4", "5", "6", "7", "8", "9">>
IsDigit(c) == \E i \in DOMAIN Digits : Digits[i] = c
DigitVal(c) == (CHOOSE i \in DOMAIN Digits : Digits[i] = c) - 1

Num(v) == [kind |-> "num", v |-> v]
ValueError == [kind |-> "error", v |-> 0]

AllDigits(t) == \A i \in DOMAIN t : IsDigit(t[i])

RECURSIVE DigitsValue(_)
DigitsValue(t) ==
    IF t = <<>> THEN 0
    ELSE DigitsValue(SubSeq(t, 1, Len(t) - 1)) * 10 + DigitVal(t[Len(t)])

\* the value, in hundredths, of the decimals after the point
FractionValue(t) ==
    IF t = <<>> THEN 0
    ELSE IF Len(t) = 1 THEN DigitVal(t[1]) * 10
    ELSE DigitVal(t[1]) * 10 + DigitVal(t[2])

\* float() of an unsigned text
ParseUnsigned(t) ==
    IF t = <<"i", "n", "f">> THEN [kind |-> "inf", v |-> 1]
    ELSE IF t = <<"n", "a", "n">> THEN [kind |-> "nan", v |-> 0]
    ELSE LET dots == { i \in DOMAIN t : t[i] = "." }
         IN  IF dots = {}
             THEN IF t # <<>> /\ AllDigits(t) THEN Num(DigitsValue(t) * Scale)
                  ELSE ValueError
             ELSE IF Cardinality(dots) > 1 THEN ValueError
             ELSE LET d == CHOOSE i \in dots : TRUE
                      whole == SubSeq(t, 1, d - 1)
                      frac == SubSeq(t, d + 1, Len(t))
                  IN  IF AllDigits(whole) /\ AllDigits(frac) /\ Len(whole) + Len(frac) > 0
                      THEN Num(DigitsValue(whole) * Scale + FractionValue(frac))
                      ELSE ValueError

\* float(text)
ParseFloat(text) ==
    IF text # <<>> /\ text[1] \in {"+", "-"}
    THEN LET f == ParseUnsigned(Tail(text))
         IN  IF text[1] = "-" /\ f.kind \in {"num", "inf"}
             THEN [f EXCEPT !.v = 0 - f.v] ELSE f
    ELSE ParseUnsigned(text)

\* int(f) of a finite float: truncation towards zero
Truncate(v) == IF v >= 0 THEN v \div Scale ELSE 0 - ((0 - v) \div Scale)

RECURSIVE Without(_, _)
Without(text, c) ==
    IF text = <<>> THEN <<>>
    ELSE IF Head(text) = c THEN Without(Tail(text), c)
    ELSE <<Head(text)>> \o Without(Tail(text), c)

RECURSIVE StripLeft(_)
StripLeft(text) ==
    IF text # <<>> /\ Head(text) = " " THEN StripLeft(Tail(text)) ELSE text

RECURSIVE StripRight(_)
StripRight(text) ==
    IF text # <<>> /\ text[Len(text)] = " "
    THEN StripRight(SubSeq(text, 1, Len(text) - 1)) ELSE text

\* str.strip()
Strip(text) == StripRight(StripLeft(text))

-----------------------------------------------------------------------------
(* fetch_player_image *)

\* the "Fix URL if found" step of fetch_player_image
FixProfileUrl(img_url) ==
    IF img_url = Empty THEN Empty
    ELSE IF StartsWith(img_url, <<"/", "/">>) THEN Https \o img_url
    ELSE IF StartsWith(img_url, <<"/">>) THEN Origin \o img_url
    ELSE IF StartsWith(img_url, Http) THEN img_url
    ELSE Empty

\* the selector chain of fetch_player_image over a fetched profile page
ProfileImage(page) ==
    LET try1 == IF page.header_imgs # <<>> THEN ImgAttr(Head(page.header_imgs))
                ELSE Empty
        try2 == IF try1 # Empty THEN try1 ELSE FirstRealSrc(page.header_imgs)
        try3 == IF try2 # Empty THEN try2 ELSE FirstRealSrc(page.photo_imgs)
    IN  FixProfileUrl(try3)

Str(s) == [kind |-> "str", val |-> s]
\* an exception object, as gather(return_exceptions=True) hands it back
Raised == [kind |-> "exc", val |-> <<"<exception>">>]

\* what one gathered fetch_player_image task resolves to, given the
\* transport's answer for its GET
FetchPlayerImage(player_id, resp) ==
    IF player_id = "" THEN Str(Empty)
    ELSE IF resp.kind \in {"neterr", "status"} THEN Str(Empty)   \* httpx.HTTPError
    ELSE IF resp.kind = "crash" THEN Raised                      \* any other exception
    ELSE Str(ProfileImage(resp.page))

Img(src) == [src |-> src, data_src |-> Empty, lazy_src |-> Empty, in_link |-> FALSE]

ProfilePhoto(player_id) == <<"/", "/", "owcdn.net/img/", player_id, ".png">>

NoImageProfile == [header_imgs |-> <<>>, photo_imgs |-> <<>>]
PhotoProfile(player_id) ==
    [header_imgs |-> <<Img(ProfilePhoto(player_id))>>, photo_imgs |-> <<>>]

\* the answers the transport can give to GET /player/<player_id>
ProfileResponses(player_id) ==
    { [kind |-> "neterr", page |-> NoImageProfile],
      [kind |-> "status", page |-> NoImageProfile],
      [kind |-> "crash", page |-> NoImageProfile],
      [kind |-> "page", page |-> NoImageProfile],
      [kind |-> "page", page |-> PhotoProfile(player_id)] }

-----------------------------------------------------------------------------
(* fetch_team_roster: first pass *)

\* re.search(r'/player/(\d+)', href) on the item's first link
ItemPlayerId(item) == IF item.link = "player" THEN item.pid ELSE ""

RECURSIVE SelectInLink(_)
SelectInLink(imgs) ==
    IF imgs = <<>> THEN <<>>
    ELSE IF Head(imgs).in_link THEN <<Head(imgs)>> \o SelectInLink(Tail(imgs))
    ELSE SelectInLink(Tail(imgs))

\* "Try 1" .. "Try 4" of the first pass
ItemImage(item) ==
    LET try1 == IF item.imgs # <<>> THEN ImgAttr(Head(item.imgs)) ELSE Empty
        linked == SelectInLink(item.imgs)
        try2 == IF try1 = Empty /\ item.link # "none" /\ linked # <<>>
                THEN ImgAttr(Head(linked)) ELSE try1
        try3 == IF try2 = Empty THEN FirstRealSrc(item.imgs) ELSE try2
        try4 == IF try3 = Empty THEN item.bg ELSE try3
    IN  try4

\* "Fix URL if needed" of the first pass
FixRosterUrl(player_img) ==
    IF player_img = Empty THEN Empty
    ELSE IF StartsWith(player_img, <<"/", "/">>) THEN Https \o player_img
    ELSE IF StartsWith(player_img, <<"/">>) THEN Origin \o player_img
    ELSE IF ~StartsWith(player_img, Http) THEN Origin \o player_img
    ELSE player_img

\* faulty variant: the slice [:5] left out
ScannedAll(player_items) == player_items
\* player_items[:5]
ScannedItems(player_items) ==
    SubSeq(player_items, 1, Min(MaxPlayers, Len(player_items)))

\* the loop body of the first pass: items without a name are skipped
RECURSIVE CollectPlayers(_)
CollectPlayers(items) ==
    IF items = <<>> THEN <<>>
    ELSE LET item == Head(items)
         IN  IF item.alias_el /\ item.alias # ""
             THEN <<[name |-> item.alias,
                     img |-> FixRosterUrl(ItemImage(item)),
                     id |-> ItemPlayerId(item)]>> \o CollectPlayers(Tail(items))
             ELSE CollectPlayers(Tail(items))

FirstPass(player_items) == CollectPlayers(ScannedItems(player_items))

-----------------------------------------------------------------------------
(* fetch_team_roster: second pass *)

\* faulty variant: the test "not img" left out
NeedsImageById(player_data) == player_data.id # ""
\* the entries that get a fetch_player_image task
NeedsImage(player_data) == player_data.img = Empty /\ player_data.id # ""

RECURSIVE TaskIndicesFrom(_, _)
TaskIndicesFrom(pdl, i) ==
    IF i > Len(pdl) THEN <<>>
    ELSE IF NeedsImage(pdl[i]) THEN <<i>> \o TaskIndicesFrom(pdl, i + 1)
    ELSE TaskIndicesFrom(pdl, i + 1)

TaskIndices(pdl) == TaskIndicesFrom(pdl, 1)

\* faulty variants: result idx written to slot idx; exceptions taken as images
SlotByTaskOrder(indices, idx) == idx
UsableAnyResult(result) == result.val # Empty
\* the slot a gathered result is written to: task_indices[idx]
SlotOf(indices, idx) == indices[idx]

\* "not isinstance(result, Exception) and result"
Usable(result) == result.kind = "str" /\ result.val # Empty

\* the loop over the gathered results
RECURSIVE FanInFrom(_, _, _, _)
FanInFrom(pdl, indices, res, idx) ==
    IF idx > Len(res) THEN pdl
    ELSE LET slot == SlotOf(indices, idx)
             next == IF Usable(res[idx].result) /\ slot \in DOMAIN pdl
                     THEN [pdl EXCEPT ![slot].img = res[idx].result.val]
                     ELSE pdl
         IN  FanInFrom(next, indices, res, idx + 1)

FanIn(pdl, indices, res) == FanInFrom(pdl, indices, res, 1)

-----------------------------------------------------------------------------
(* parse_player_row *)

stat_keys == <<"rating", "acs", "kills", "deaths", "assists", "kd_diff", "kast",
               "adr", "headshot_percent", "first_kills", "first_deaths",
               "first_kills_diff">>

DefaultStats ==
    [rating |-> Num(0), acs |-> 0, kills |-> 0, deaths |-> 0, assists |-> 0,
     kast |-> 0, adr |-> 0, headshot_percent |-> 0, first_kills |-> 0,
     first_deaths |-> 0, first_kills_diff |-> 0]

\* the body of the loop over stat_cells for one cell: the stats after it, and
\* whether an exception left the inner try (OverflowError of int(float(text)))
ParseCell(stats, key, cell) ==
    LET text == Strip(Without(cell, "%"))
        f == ParseFloat(text)
    IN  IF key = "kd_diff" THEN [raised |-> FALSE, stats |-> stats]
        ELSE IF key = "rating"
        THEN [raised |-> FALSE,
              stats |-> IF text = <<>> THEN [stats EXCEPT !.rating = Num(0)]
                        ELSE IF f.kind = "error" THEN stats
                        ELSE [stats EXCEPT !.rating = f]]
        ELSE IF text = <<>> THEN [raised |-> FALSE, stats |-> [stats EXCEPT ![key] = 0]]
        ELSE IF f.kind \in {"error", "nan"} THEN [raised |-> FALSE, stats |-> stats]
        ELSE IF f.kind = "inf" THEN [raised |-> TRUE, stats |-> stats]
        ELSE [raised |-> FALSE, stats |-> [stats EXCEPT ![key] = Truncate(f.v)]]

\* for i, cell in enumerate(stat_cells): if i >= len(stat_keys): break ...
RECURSIVE ParseCells(_, _, _)
ParseCells(stats, cells, i) ==
    IF i > Len(cells) \/ i > Len(stat_keys) THEN [raised |-> FALSE, stats |-> stats]
    ELSE LET step == ParseCell(stats, stat_keys[i], cells[i])
         IN  IF step.raised THEN step ELSE ParseCells(step.stats, cells, i + 1)

\* the row's avatar, as parse_player_row normalises it
RowImage(row) ==
    IF row.link = "none" \/ row.img = Empty THEN Empty
    ELSE IF StartsWith(row.img, Http) THEN row.img
    ELSE IF StartsWith(row.img, <<"/", "/">>) THEN Https \o row.img
    ELSE Origin \o row.img

\* the .mod-agent imgs that have a title
RECURSIVE RowAgents(_)
RowAgents(agent_imgs) ==
    IF agent_imgs = <<>> THEN <<>>
    ELSE IF Head(agent_imgs).title # ""
         THEN <<[title |-> Head(agent_imgs).title, img |-> Head(agent_imgs).src]>>
              \o RowAgents(Tail(agent_imgs))
         ELSE RowAgents(Tail(agent_imgs))

\* faulty variant: the first team whatever the table
RowTeamFirst(team_list, table_index) ==
    IF team_list # <<>> THEN team_list[1].name ELSE "Unknown"
\* teams[table_index]["name"] if table_index < len(teams) else "Unknown";
\* table_index counts from 0
RowTeam(team_list, table_index) ==
    IF table_index < Len(team_list) THEN team_list[table_index + 1].name ELSE "Unknown"

\* parse_player_row(row, teams, table_index): <<>> for None, else <<the record>>
ParsePlayerRow(row, team_list, table_index) ==
    IF ~row.name_el THEN <<>>
    ELSE LET parsed == ParseCells(DefaultStats, row.cells, 1)
         IN  IF parsed.raised THEN <<>>              \* except Exception: return None
             ELSE <<[id |-> IF row.link = "player" THEN row.pid ELSE "",
                     name |-> row.name,
                     team |-> RowTeam(team_list, table_index),
                     agents |-> RowAgents(row.agent_imgs),
                     img |-> RowImage(row),
                     stats |-> parsed.stats]>>

-----------------------------------------------------------------------------
(* get_match *)

UpperCase == <<"A", "B", "C", "D", "E", "F", "G", "H", "I", "J", "K", "L", "M",
               "N", "O", "P", "Q", "R", "S", "T", "U", "V", "W", "X", "Y", "Z">>
LowerCase == <<"a", "b", "c", "d", "e", "f", "g", "h", "i", "j", "k", "l", "m",
               "n", "o", "p", "q", "r", "s", "t", "u", "v", "w", "x", "y", "z">>

LowerChar(c) ==
    IF \E i \in DOMAIN UpperCase : UpperCase[i] = c
    THEN LowerCase[CHOOSE i \in DOMAIN UpperCase : UpperCase[i] = c]
    ELSE c

\* str.lower()
Lower(text) == [i \in DOMAIN text |-> LowerChar(text[i])]

Unknown == <<"U", "n", "k", "n", "o", "w", "n">>
AllMaps == <<"A", "l", "l", " ", "M", "a", "p", "s">>
RosterMap == <<"R", "o", "s", "t", "e", "r">>

\* the ids of the first two .match-header-link elements
TeamIds(page) ==
    [i \in 1..Min(HeaderTeamCount, Len(page.team_links)) |-> page.team_links[i]]

\* a header logo made absolute
LogoUrl(logo) ==
    IF logo # Empty /\ ~StartsWith(logo, Http)
    THEN IF StartsWith(logo, <<"/", "/">>) THEN Https \o logo ELSE Origin \o logo
    ELSE logo

\* the teams list: the first two header names with score, logo and id
Teams(page) ==
    [i \in 1..Min(HeaderTeamCount, Len(page.team_names)) |->
        [name |-> page.team_names[i],
         score |-> IF i <= Len(page.scores) THEN page.scores[i] ELSE "0",
         img |-> LogoUrl(IF i <= Len(page.logos) THEN page.logos[i] ELSE Empty),
         id |-> IF i <= Len(TeamIds(page)) THEN TeamIds(page)[i] ELSE ""]]

\* event_el.select_one("div:nth-child(n)") is None for an event block that
\* lacks the n-th div, and .get_text on it raises AttributeError
EventRaises(page) == page.event \in {"one_div", "no_div"}

Event(page) ==
    [series |-> IF page.event = "absent" THEN "" ELSE "VCT Americas",
     stage |-> IF page.event = "absent" THEN "" ELSE "Grand Final",
     id |-> "", img |-> "None", status |-> "None"]

\* Method 2: the inline nodes with a name, even positions (from 0) to team 1
\* and odd ones to team 2; i is the position from 1
RECURSIVE InlineFrom(_, _, _)
InlineFrom(containers, t, i) ==
    IF i > Len(containers) THEN <<>>
    ELSE IF containers[i] # "" /\ (i - 1) % 2 = t - 1
         THEN <<[name |-> containers[i], img |-> Empty, id |-> ""]>>
              \o InlineFrom(containers, t, i + 1)
         ELSE InlineFrom(containers, t, i + 1)

InlineRoster(containers, t) == InlineFrom(containers, t, 1)

\* faulty variant: the test "not roster" left out
FetchAlways(roster, ids, t) == Len(ids) >= t /\ ids[t] # ""
\* Method 3 applies: "not teamN_roster and len(team_ids) >= N and team_ids[N-1]"
NeedsRosterFetch(roster, ids, t) == roster = <<>> /\ Len(ids) >= t /\ ids[t] # ""

PlaceholderTeam(team_list, t) ==
    IF t = 1 THEN IF team_list # <<>> THEN team_list[1].name ELSE "Team 1"
    ELSE IF Len(team_list) > 1 THEN team_list[2].name ELSE "Team 2"

\* the placeholder players of team t
PlaceholderPlayers(roster, team_list, t) ==
    [i \in 1..Min(LineupSize, Len(roster)) |->
        [id |-> roster[i].id,
         name |-> roster[i].name,
         team |-> PlaceholderTeam(team_list, t),
         agents |-> <<>>,
         img |-> roster[i].img,
         stats |-> DefaultStats]]

\* the maps list of an upcoming match
UpcomingMaps(roster1, roster2, team_list) ==
    LET players == PlaceholderPlayers(roster1, team_list, 1)
                   \o PlaceholderPlayers(roster2, team_list, 2)
    IN  IF players # <<>>
        THEN <<[map |-> RosterMap,
                teams |-> [i \in DOMAIN team_list |->
                             [name |-> team_list[i].name, score |-> "0"]],
                players |-> players]>>
        ELSE <<>>

\* faulty variant: the comparison without lower()
MapNameExact(block) ==
    LET map_name == IF block.name_el THEN Strip(block.name_text) ELSE Unknown
    IN  IF map_name = Lower(AllMaps) THEN AllMaps ELSE map_name
\* map_name of a map block
MapName(block) ==
    LET map_name == IF block.name_el THEN Strip(block.name_text) ELSE Unknown
    IN  IF Lower(map_name) = Lower(AllMaps) THEN AllMaps ELSE map_name

FallbackTeam(i) == IF i = 1 THEN "Team 1" ELSE "Team 2"

\* map_teams of a map block
MapTeams(block, team_list) ==
    [i \in 1..Min(HeaderTeamCount, Len(block.scores)) |->
        [name |-> IF i <= Len(team_list) THEN team_list[i].name ELSE FallbackTeam(i),
         score |-> block.scores[i]]]

RECURSIVE TableRows(_, _, _)
TableRows(rows, team_list, table_index) ==
    IF rows = <<>> THEN <<>>
    ELSE ParsePlayerRow(Head(rows), team_list, table_index)
         \o TableRows(Tail(rows), team_list, table_index)

\* the players of a map block: its tables in order, table_index from 0
RECURSIVE BlockPlayers(_, _, _)
BlockPlayers(tables, team_list, table_index) ==
    IF table_index >= Len(tables) THEN <<>>
    ELSE TableRows(tables[table_index + 1], team_list, table_index)
         \o BlockPlayers(tables, team_list, table_index + 1)

\* the maps list of a completed match
CompletedMaps(blocks, team_list) ==
    [b \in DOMAIN blocks |->
        [map |-> MapName(blocks[b]),
         teams |-> MapTeams(blocks[b], team_list),
         players |-> BlockPlayers(blocks[b].tables, team_list, 0)]]

\* len([m for m in maps if m["map"] not in ["All Maps", "Roster"]])
MapCount(maps) ==
    Cardinality({ i \in DOMAIN maps : maps[i].map \notin {AllMaps, RosterMap} })

\* the record get_match returns
Result(team_list, ev, maps, is_upcoming) ==
    [kind |-> "ok", teams |-> team_list, event |-> ev, map_count |-> MapCount(maps),
     maps |-> maps, is_upcoming |-> is_upcoming]

\* raise HTTPException(status_code=404), or the unhandled exception
HttpError(status) == [kind |-> "error", status |-> status]

NoResponse == [kind |-> "none"]

-----------------------------------------------------------------------------
(* The documents of the site *)

Name(i) == "n" \o ToString(i)
\* three players, so that one player can be listed in two roster items
PlayerId(i) == ToString(((i - 1) % 3) + 1)
RosterPhoto(i) == <<"/", "/", "owcdn.net/img/r", ToString(i), ".png">>

ItemKinds == {"unnamed", "photo", "anon", "bare"}

\* the i-th .team-roster-item of a team page
Item(i, kind) ==
    [alias_el |-> kind # "unnamed",
     alias |-> IF kind = "unnamed" THEN "" ELSE Name(i),
     link |-> IF kind = "anon" THEN "none" ELSE "player",
     pid |-> IF kind = "anon" THEN "" ELSE PlayerId(i),
     imgs |-> IF kind = "photo"
              THEN <<[Img(RosterPhoto(i)) EXCEPT !.in_link = TRUE]>> ELSE <<>>,
     bg |-> Empty]

TeamPages(n) ==
    UNION { { [i \in 1..len |-> Item(i, kinds[i])] : kinds \in [1..len -> ItemKinds] }
            : len \in 0..n }

-----------------------------------------------------------------------------
(* Scoreboard rows *)

\* the text of the i-th stat cell of a well-formed row: the number 10 + i
PlainCell(i) == <<Digits[((10 + i) \div 10) + 1], Digits[((10 + i) % 10) + 1]>>

\* "U+2212" stands for the one character MINUS SIGN
SpecialCells ==
    { <<>>, <<"1", ".", "2", "5">>, <<"4", "5", "%">>, <<"4", " ", "%">>,
      <<"-", "3">>, <<"+", "3">>, <<"1", "2", ".", "9">>, <<"-", "1", ".", "5">>,
      <<"1", ".">>, <<".", "5">>, <<".">>, <<"a", "b", "c">>, <<"1", ",", "2">>,
      <<"U+2212", "3">>, <<"i", "n", "f">>, <<"-", "i", "n", "f">>,
      <<"n", "a", "n">> }

\* rows of k cells, all well-formed but at most one
CellRows(k) ==
    { [i \in 1..k |-> PlainCell(i)] }
    \cup { [i \in 1..k |-> IF i = j THEN c ELSE PlainCell(i)] :
             j \in 1..k, c \in SpecialCells }

AgentImgs == <<[title |-> "Jett", src |-> <<"/", "img/vlr/game/agents/jett.png">>],
               [title |-> "", src |-> <<"/", "img/vlr/game/agents/x.png">>]>>

\* a scoreboard row: with or without .text-of element, with or without link
ScoreRow(name_el, name, link, cells) ==
    [name_el |-> name_el, name |-> name, link |-> link,
     pid |-> IF link = "player" THEN "9" ELSE "",
     img |-> IF link = "none" THEN Empty ELSE <<"/", "/", "owcdn.net/img/row.png">>,
     agent_imgs |-> IF link = "none" THEN <<>> ELSE AgentImgs,
     cells |-> cells]

Rows ==
    { ScoreRow(TRUE, "aspas", "player", cells) :
        cells \in UNION { CellRows(k) : k \in 0..MaxCells } }
    \cup { ScoreRow(TRUE, "", "none", cells) : cells \in CellRows(3) }
    \cup { ScoreRow(FALSE, "", "other", cells) : cells \in CellRows(2) }

HeaderTeam(i) == [name |-> IF i = 1 THEN "LOUD" ELSE "Sentinels"]
HeaderTeams == { [i \in 1..n |-> HeaderTeam(i)] : n \in 0..2 }

-----------------------------------------------------------------------------
(* Match pages *)

InlineName(i) == "inline" \o ToString(i)
InlineContainers ==
    UNION { [1..len -> {"", "x"}] : len \in 0..MaxInline }

\* the texts of the .match-header-vs-player nodes
PlayerContainers ==
    { [i \in DOMAIN c |-> IF c[i] = "" THEN "" ELSE InlineName(i)] : c \in InlineContainers }

TeamId(i) == "team" \o ToString(i)
TeamLinks ==
    { [i \in DOMAIN c |-> IF c[i] = "" THEN "" ELSE TeamId(i)] :
        c \in UNION { [1..len -> {"", "x"}] : len \in 0..2 } }

\* a header with no team, with one bare team name, or with both teams
Headers ==
    { [team_names |-> <<>>, scores |-> <<>>, logos |-> <<>>],
      [team_names |-> <<"LOUD">>, scores |-> <<>>, logos |-> <<>>],
      [team_names |-> <<"LOUD", "Sentinels">>, scores |-> <<"2", "1">>,
       logos |-> << <<"/", "/", "owcdn.net/img/loud.png">>,
                    <<"/", "img/vlr/tmp/vlr.png">> >>] }

EventBlocks == {"absent", "two_divs", "one_div", "no_div"}

MatchPage(header, links, ev, containers, blocks) ==
    [team_names |-> header.team_names, scores |-> header.scores,
     logos |-> header.logos, team_links |-> links, event |-> ev,
     player_containers |-> containers, map_containers |-> blocks]

FullHeader == CHOOSE h \in Headers : Len(h.team_names) = 2

\* upcoming matches: any header and event block with both team links and no
\* inline node, or any team links and inline nodes under a full header
UpcomingPages ==
    { MatchPage(h, <<TeamId(1), TeamId(2)>>, e, <<>>, <<>>) :
        h \in Headers, e \in EventBlocks }
    \cup { MatchPage(FullHeader, l, "two_divs", c, <<>>) :
             l \in TeamLinks, c \in PlayerContainers }

\* the .map name element of a map block: missing, or with this text
MapNameEls ==
    { [name_el |-> FALSE, name_text |-> Empty] }
    \cup { [name_el |-> TRUE, name_text |-> t] :
             t \in { Empty, <<" ">>, <<"B", "i", "n", "d">>,
                     <<"T", "B", "D">>, <<"t", "b", "d">>,
                     AllMaps, Lower(AllMaps), <<"A", "L", "L", " ", "M", "A", "P", "S">>,
                     RosterMap } }

PlainCells == [i \in 1..Len(stat_keys) |-> PlainCell(i)]

\* a stat table: one player row, a row without name followed by a player
\* row, or one row of a player whose name is the name of a header team
StatTables ==
    { << ScoreRow(TRUE, "aspas", "player", PlainCells) >>,
      << ScoreRow(FALSE, "", "other", <<>>), ScoreRow(TRUE, "TenZ", "none", <<>>) >>,
      << ScoreRow(TRUE, "Sentinels", "player", <<>>) >> }

BlockTables == UNION { [1..n -> StatTables] : n \in 0..MaxTables }

NamedBlock == [name_el |-> TRUE, name_text |-> <<"B", "i", "n", "d">>]

\* the map blocks of a page: the name elements, and the tables of each block
Blocks(names, tables) ==
    [b \in DOMAIN names |->
        [name_el |-> names[b].name_el, name_text |-> names[b].name_text,
         scores |-> <<"13", "7">>, tables |-> tables]]

\* completed matches: any map names under a full header with one table per
\* team, or any header, event block and tables around one named map
CompletedPages ==
    { MatchPage(FullHeader, <<TeamId(1), TeamId(2)>>, "two_divs", <<>>,
                Blocks(names, [i \in 1..2 |-> CHOOSE t \in StatTables :
                                                Len(t) = i /\ t[i].name # "Sentinels"])) :
        names \in UNION { [1..n -> MapNameEls] : n \in 1..MaxMaps } }
    \cup { MatchPage(h, <<TeamId(1), TeamId(2)>>, e, <<>>, Blocks(<<NamedBlock>>, tables)) :
             h \in Headers, e \in EventBlocks, tables \in BlockTables }

MatchPages == UpcomingPages \cup CompletedPages

-----------------------------------------------------------------------------
(* Transport *)

MatchDoc == <<"match", 0, 0>>
TeamDoc(t) == <<"team", t, 0>>
PlayerDoc(t, slot) == <<"player", t, slot>>

Sent(doc) == IF doc \in DOMAIN sent THEN sent[doc] ELSE 0

\* how a GET ended: "failed" for a network error, an HTTP error status, an
\* exception, or a profile page without image; else "ok"
Outcome(resp) ==
    IF resp.kind # "page" \/ resp.page = NoImageProfile THEN "failed" ELSE "ok"

Answer(log, doc, outcome) ==
    [d \in DOMAIN log \cup {doc} |-> IF d = doc THEN outcome ELSE log[d]]

\* faulty variant: every GET repeated once
IssueWithRetry(log, docs) ==
    [d \in DOMAIN log \cup docs |->
        (IF d \in DOMAIN log THEN log[d] ELSE 0) + (IF d \in docs THEN 2 ELSE 0)]

\* one GET for each document of docs
Issue(log, docs) ==
    [d \in DOMAIN log \cup docs |->
        (IF d \in DOMAIN log THEN log[d] ELSE 0) + (IF d \in docs THEN 1 ELSE 0)]

-----------------------------------------------------------------------------
(* fetch_team_roster *)

Pending(player_id) ==
           [player_id |-> player_id,
            done |-> FALSE,
            resp |-> [kind |-> "none", page |-> NoImageProfile],
            result |-> Str(Empty)]

\* faulty variant: only the first task gathered
GatherFirstOnly(t, indices) ==
    IF indices = <<>> THEN {} ELSE {PlayerDoc(t, indices[1])}
\* asyncio.gather(*tasks): one fetch_player_image task per entry of indices
GatherDocs(t, indices) == { PlayerDoc(t, indices[k]) : k \in DOMAIN indices }

\* GET /team/<team_id> failed: return []
RosterFetchFailed ==
    /\ rpc = "start"
    /\ sent' = Issue(sent, {TeamDoc(roster_team)})
    /\ answered' = Answer(answered, TeamDoc(roster_team), "failed")
    /\ roster_ret' = <<>>
    /\ rpc' = "returned"
    /\ UNCHANGED <<site, imgVars, liveVars, n_items, first_pass, player_data_list, task_indices,
                   results, roster_team, matchVars, rowVars>>

\* GET /team/<team_id> answered: first pass, then the tasks of the second
\* pass are created and gathered (or the list is returned when there are none)
RosterParse ==
    /\ rpc = "start"
    /\ \E player_items \in TeamPages(site.roster_items) :
         LET pdl == FirstPass(player_items)
             indices == TaskIndices(pdl)
         IN  /\ n_items' = Len(player_items)
             /\ first_pass' = pdl
             /\ player_data_list' = pdl
             /\ task_indices' = indices
             /\ results' = [k \in DOMAIN indices |-> Pending(pdl[indices[k]].id)]
             /\ sent' = Issue(sent, {TeamDoc(roster_team)}
                                     \cup GatherDocs(roster_team, indices))
             /\ IF indices = <<>>
                THEN rpc' = "returned" /\ roster_ret' = pdl
                ELSE rpc' = "await" /\ roster_ret' = roster_ret
    /\ answered' = Answer(answered, TeamDoc(roster_team), "ok")
    /\ UNCHANGED <<site, imgVars, liveVars, roster_team, matchVars, rowVars>>

\* one gathered fetch_player_image task finishes
PlayerFetchDone ==
    /\ rpc = "await"
    /\ \E k \in DOMAIN results :
         /\ ~results[k].done
         /\ \E resp \in ProfileResponses(results[k].player_id) :
              /\ results' = [results EXCEPT ![k] =
                            [player_id |-> @.player_id,
                             done |-> TRUE,
                             resp |-> resp,
                             result |-> FetchPlayerImage(@.player_id, resp)]]
              /\ answered' = Answer(answered, PlayerDoc(roster_team, task_indices[k]),
                                    Outcome(resp))
    /\ UNCHANGED <<site, imgVars, liveVars, rpc, n_items, first_pass, player_data_list,
                   task_indices, roster_ret, roster_team, sent, matchVars, rowVars>>

\* the gather is complete: results are written back and the list returned
RosterFanIn ==
    /\ rpc = "await"
    /\ \A k \in DOMAIN results : results[k].done
    /\ player_data_list' = FanIn(player_data_list, task_indices, results)
    /\ roster_ret' = player_data_list'
    /\ rpc' = "returned"
    /\ UNCHANGED <<site, imgVars, liveVars, n_items, first_pass, task_indices, results,
                   roster_team, netVars, matchVars, rowVars>>


-----------------------------------------------------------------------------
(* get_match *)

\* a call of fetch_team_roster for team t begins
StartRoster(t) ==
    /\ rpc' = "start"
    /\ roster_team' = t
    /\ n_items' = 0
    /\ first_pass' = <<>>
    /\ player_data_list' = <<>>
    /\ task_indices' = <<>>
    /\ results' = <<>>
    /\ roster_ret' = <<>>

\* the frame of the returned call is dropped
EndRoster ==
    /\ rpc' = "idle"
    /\ roster_team' = 0
    /\ n_items' = 0
    /\ first_pass' = <<>>
    /\ player_data_list' = <<>>
    /\ task_indices' = <<>>
    /\ results' = <<>>
    /\ roster_ret' = <<>>

\* GET /<match_id> failed: raise HTTPException(404)
MatchFetchFailed ==
    /\ pc = "start"
    /\ sent' = Issue(sent, {MatchDoc})
    /\ answered' = Answer(answered, MatchDoc, "failed")
    /\ response' = HttpError(404)
    /\ pc' = "raised"
    /\ UNCHANGED <<site, imgVars, liveVars, rosterVars, rowVars, teams, team_ids, player_containers,
                   map_containers, team1_roster, team2_roster, event>>

\* GET /<match_id> answered: teams, event, then the completed-match branch up
\* to the return, or the upcoming-match branch up to its first roster fetch
MatchParse ==
    /\ pc = "start"
    /\ sent' = Issue(sent, {MatchDoc})
    /\ answered' = Answer(answered, MatchDoc, "ok")
    /\ \E page \in MatchPages :
         LET roster1 == InlineRoster(page.player_containers, 1)
             roster2 == InlineRoster(page.player_containers, 2)
         IN  /\ teams' = Teams(page)
             /\ team_ids' = TeamIds(page)
             /\ IF EventRaises(page)
                THEN /\ pc' = "raised"
                     /\ response' = HttpError(500)
                     /\ UNCHANGED <<event, player_containers, map_containers,
                                    team1_roster, team2_roster, rosterVars>>
                ELSE /\ event' = Event(page)
                     /\ map_containers' = page.map_containers
                     /\ IF page.map_containers # <<>>
                        THEN /\ pc' = "done"
                             /\ response' = Result(Teams(page), Event(page),
                                                   CompletedMaps(page.map_containers,
                                                                 Teams(page)), FALSE)
                             /\ UNCHANGED <<player_containers, team1_roster,
                                            team2_roster, rosterVars>>
                        ELSE /\ player_containers' = page.player_containers
                             /\ team1_roster' = roster1
                             /\ team2_roster' = roster2
                             /\ IF NeedsRosterFetch(roster1, TeamIds(page), 1)
                                THEN pc' = "team1" /\ StartRoster(1)
                                     /\ response' = response
                                ELSE IF NeedsRosterFetch(roster2, TeamIds(page), 2)
                                THEN pc' = "team2" /\ StartRoster(2)
                                     /\ response' = response
                                ELSE /\ pc' = "done"
                                     /\ response' = Result(Teams(page), Event(page),
                                                           UpcomingMaps(roster1, roster2,
                                                                        Teams(page)), TRUE)
                                     /\ UNCHANGED rosterVars
    /\ UNCHANGED <<site, imgVars, liveVars, rowVars>>

\* team1_roster = await fetch_team_roster(team_ids[0]) resumes
MatchTeam1Returned ==
    /\ pc = "team1"
    /\ rpc = "returned"
    /\ team1_roster' = roster_ret
    /\ IF NeedsRosterFetch(team2_roster, team_ids, 2)
       THEN pc' = "team2" /\ StartRoster(2) /\ response' = response
       ELSE /\ pc' = "done"
            /\ EndRoster
            /\ response' = Result(teams, event,
                                  UpcomingMaps(roster_ret, team2_roster, teams), TRUE)
    /\ UNCHANGED <<site, imgVars, liveVars, netVars, rowVars, teams, team_ids, player_containers,
                   map_containers, team2_roster, event>>

\* team2_roster = await fetch_team_roster(team_ids[1]) resumes
MatchTeam2Returned ==
    /\ pc = "team2"
    /\ rpc = "returned"
    /\ team2_roster' = roster_ret
    /\ pc' = "done"
    /\ EndRoster
    /\ response' = Result(teams, event,
                          UpcomingMaps(team1_roster, roster_ret, teams), TRUE)
    /\ UNCHANGED <<site, imgVars, liveVars, netVars, rowVars, teams, team_ids, player_containers,
                   map_containers, team1_roster, event>>

-----------------------------------------------------------------------------
(* parse_player_row *)

\* one call of parse_player_row
RowCall ==
    /\ row_pc = "call"
    /\ row_out' = ParsePlayerRow(row_in.row, row_in.teams, row_in.table_index)
    /\ row_pc' = "done"
    /\ UNCHANGED <<site, imgVars, liveVars, rosterVars, netVars, matchVars, row_in>>

-----------------------------------------------------------------------------
(* Image resolution: the selector chains and the URL normalisation sites *)

UrlPrefixes ==
    { Empty, <<"/">>, <<"/", "/">>, Http \o <<":", "/", "/">>, Https \o <<"/", "/">>,
      <<"H", "T", "T", "P", "S", ":", "/", "/">>, <<"d", "a", "t", "a", ":">>,
      <<".", "/">>, <<" ">> }

UrlRests ==
    { Empty, <<"owcdn.net/img/a.png">>, <<"img/base/ph/sil.png">>, <<"img", "/", "b.png">> }

\* the values a src attribute or a background-image url can have
UrlTexts == { p \o r : p \in UrlPrefixes, r \in UrlRests }

ImgSrcs ==
    { Empty, Placeholder, <<"/", "/", "owcdn.net/img/a.png">>, <<"img", "/", "b.png">> }

\* img elements: the source in src or in data-src, inside the link or not
Images ==
    LET plain == { Img(src) : src \in ImgSrcs }
                 \cup { [Img(Empty) EXCEPT !.data_src = src] :
                          src \in {Placeholder, <<"/", "/", "owcdn.net/img/a.png">>} }
    IN  plain \cup { [img EXCEPT !.in_link = TRUE] : img \in plain }

ImageSeqs(S, n) == UNION { [1..len -> S] : len \in 0..n }

\* player profile pages: the imgs of .player-header and the imgs with a
\* player, photo or avatar class
ProfilePages ==
    { [header_imgs |-> h, photo_imgs |-> ph] :
        h \in ImageSeqs({ img \in Images : ~img.in_link }, MaxImgs),
        ph \in ImageSeqs({Img(Placeholder), Img(<<"/", "img", "/", "c.png">>)}, 1) }

\* .team-roster-item elements: their imgs, link and background-image
RosterItems ==
    { [alias_el |-> TRUE, alias |-> "n1", link |-> link,
       pid |-> IF link = "player" THEN "1" ELSE "",
       imgs |-> imgs, bg |-> bg] :
        link \in {"player", "none"},
        imgs \in ImageSeqs(Images, MaxImgs),
        bg \in {Empty, <<"/", "/", "owcdn.net/img/bg.png">>} }

ImageInput(kind, page, item, src) ==
    [kind |-> kind, page |-> page, item |-> item, src |-> src]

ImageInputs ==
    { ImageInput("profile", page, <<>>, Empty) : page \in ProfilePages }
    \cup { ImageInput("item", <<>>, item, Empty) : item \in RosterItems }
    \cup { ImageInput("src", <<>>, <<>>, src) : src \in UrlTexts }

\* fetch_player_image from the parsed profile page on
ProfileImageCall ==
    /\ img_pc = "call"
    /\ img_in.kind = "profile"
    /\ img_out' = ProfileImage(img_in.page)
    /\ img_pc' = "done"
    /\ UNCHANGED <<site, rosterVars, netVars, matchVars, rowVars, liveVars, img_in>>

\* the image of one roster item in the first pass of fetch_team_roster
ItemImageCall ==
    /\ img_pc = "call"
    /\ img_in.kind = "item"
    /\ img_out' = FixRosterUrl(ItemImage(img_in.item))
    /\ img_pc' = "done"
    /\ UNCHANGED <<site, rosterVars, netVars, matchVars, rowVars, liveVars, img_in>>

\* one source text through each normalisation site: the header logo of
\* get_match, the row avatar of parse_player_row, the profile image of
\* fetch_player_image and the roster avatar of fetch_team_roster
NormalizeCall ==
    /\ img_pc = "call"
    /\ img_in.kind = "src"
    /\ img_out' = [logo |-> LogoUrl(img_in.src),
                   row |-> RowImage([link |-> "player", img |-> img_in.src]),
                   profile |-> FixProfileUrl(img_in.src),
                   roster |-> FixRosterUrl(img_in.src)]
    /\ img_pc' = "done"
    /\ UNCHANGED <<site, rosterVars, netVars, matchVars, rowVars, liveVars, img_in>>

-----------------------------------------------------------------------------
(* get_live_matches *)

\* sub in text
Contains(text, sub) ==
    \E k \in 1..(Len(text) - Len(sub) + 1) : SubSeq(text, k, k + Len(sub) - 1) = sub

Live == <<"l", "i", "v", "e">>

\* faulty variant: any eta element counts as live
HasEta(item) == item.eta_el
\* eta_el and "live" in eta_el.get_text(strip=True).lower() if eta_el else False
IsLive(item) == item.eta_el /\ Contains(Lower(Strip(item.eta)), Live)

\* re.search(r'/(\d+)/', href): the digits of the leftmost /digits/, else ""
MatchId(href) ==
    LET hits == { i \in DOMAIN href :
                    /\ href[i] = "/"
                    /\ \E j \in (i + 2)..Len(href) :
                         /\ href[j] = "/"
                         /\ AllDigits(SubSeq(href, i + 1, j - 1)) }
    IN  IF hits = {} THEN Empty
        ELSE LET i == CHOOSE h \in hits : \A g \in hits : h <= g
                 j == CHOOSE k \in (i + 2)..Len(href) :
                        href[k] = "/" /\ AllDigits(SubSeq(href, i + 1, k - 1))
             IN  SubSeq(href, i + 1, j - 1)

\* one entry of teams for a .match-item-vs-team element
LiveTeam(team_item) ==
    [name |-> IF team_item.name_el THEN team_item.name ELSE "",
     score |-> IF team_item.score_el THEN team_item.score ELSE "0"]

LiveTeams(item) == [j \in DOMAIN item.team_items |-> LiveTeam(item.team_items[j])]

LiveEvent(item) == IF item.event_el THEN item.event ELSE ""

\* the loop over match_items
RECURSIVE LiveMatches(_)
LiveMatches(items) ==
    IF items = <<>> THEN <<>>
    ELSE LET item == Head(items)
             match_id == MatchId(item.href)
             live_teams == LiveTeams(item)
         IN  IF IsLive(item) /\ match_id # Empty /\ Len(live_teams) = 2
             THEN <<[id |-> match_id, team1 |-> live_teams[1], team2 |-> live_teams[2],
                     event |-> LiveEvent(item), status |-> "LIVE"]>>
                  \o LiveMatches(Tail(items))
             ELSE LiveMatches(Tail(items))

\* the home page: .match-item-eta elements, hrefs and team elements
EtaEls ==
    { [el |-> FALSE, text |-> Empty] }
    \cup { [el |-> TRUE, text |-> t] :
             t \in { Empty, <<"L", "I", "V", "E">>, <<" ", "L", "i", "v", "e", " ">>,
                     <<"2", "h", " ", "5", "m">> } }

Hrefs == { Empty, <<"/", "4", "2", "/", "loud-vs-sen">>, <<"/", "4", "2">>,
           <<"/", "live", "/", "7", "/">> }

LiveTeamItem(i, j) ==
    [name_el |-> j # 3, name |-> "team" \o ToString(i) \o ToString(j),
     score_el |-> j = 1, score |-> "1"]

LiveItem(i, eta, href, n) ==
    [eta_el |-> eta.el, eta |-> eta.text, href |-> href,
     team_items |-> [j \in 1..n |-> LiveTeamItem(i, j)],
     event_el |-> i # 2, event |-> "event" \o ToString(i)]

LiveItemChoices == [eta : EtaEls, href : Hrefs, n : 1..3]

\* the match items of a home page, one choice per item
LivePage(c) == [i \in DOMAIN c |-> LiveItem(i, c[i].eta, c[i].href, c[i].n)]

LiveDoc == <<"home", 0, 0>>

\* GET / fails: raise HTTPException(status_code=500)
LiveFetchFailed ==
    /\ live_pc = "start"
    /\ sent' = Issue(sent, {LiveDoc})
    /\ answered' = Answer(answered, LiveDoc, "failed")
    /\ live_ret' = HttpError(500)
    /\ live_pc' = "raised"
    /\ UNCHANGED <<site, rosterVars, matchVars, rowVars, imgVars, live_items>>

\* GET / answered: the loop over the match items, up to the return
LiveParse ==
    /\ live_pc = "start"
    /\ sent' = Issue(sent, {LiveDoc})
    /\ answered' = Answer(answered, LiveDoc, "ok")
    /\ \E len \in 0..MaxLiveItems : \E c \in [1..len -> LiveItemChoices] :
         /\ live_items' = LivePage(c)
         /\ live_ret' = [kind |-> "ok", live_matches |-> LiveMatches(LivePage(c))]
    /\ live_pc' = "done"
    /\ UNCHANGED <<site, rosterVars, matchVars, rowVars, imgVars>>

-----------------------------------------------------------------------------
(* Specifications *)

RosterIdle ==
    /\ rpc = "idle"
    /\ n_items = 0
    /\ first_pass = <<>>
    /\ player_data_list = <<>>
    /\ task_indices = <<>>
    /\ results = <<>>
    /\ roster_ret = <<>>
    /\ roster_team = 0

MatchIdle ==
    /\ pc = "idle"
    /\ teams = <<>>
    /\ team_ids = <<>>
    /\ player_containers = <<>>
    /\ map_containers = <<>>
    /\ team1_roster = <<>>
    /\ team2_roster = <<>>
    /\ event = Event([event |-> "absent"])
    /\ response = NoResponse

RowIdle ==
    /\ row_pc = "idle"
    /\ row_in = <<>>
    /\ row_out = <<>>

ImgIdle ==
    /\ img_pc = "idle"
    /\ img_in = <<>>
    /\ img_out = <<>>

LiveIdle ==
    /\ live_pc = "idle"
    /\ live_items = <<>>
    /\ live_ret = NoResponse

NetInit ==
    /\ sent = <<>>
    /\ answered = <<>>

\* one standalone call of fetch_team_roster(team_id)
InitRoster ==
    /\ site = [roster_items |-> MaxItems]
    /\ NetInit
    /\ rpc = "start"
    /\ n_items = 0
    /\ first_pass = <<>>
    /\ player_data_list = <<>>
    /\ task_indices = <<>>
    /\ results = <<>>
    /\ roster_ret = <<>>
    /\ roster_team = 1
    /\ MatchIdle
    /\ RowIdle
    /\ ImgIdle
    /\ LiveIdle

RosterNext == RosterFetchFailed \/ RosterParse \/ PlayerFetchDone \/ RosterFanIn

SpecRoster == InitRoster /\ [][RosterNext]_vars

\* one request GET /match/{match_id}
InitMatch ==
    /\ site = [roster_items |-> MaxMatchItems]
    /\ NetInit
    /\ RosterIdle
    /\ pc = "start"
    /\ teams = <<>>
    /\ team_ids = <<>>
    /\ player_containers = <<>>
    /\ map_containers = <<>>
    /\ team1_roster = <<>>
    /\ team2_roster = <<>>
    /\ event = Event([event |-> "absent"])
    /\ response = NoResponse
    /\ RowIdle
    /\ ImgIdle
    /\ LiveIdle

MatchNext ==
    \/ MatchFetchFailed
    \/ MatchParse
    \/ MatchTeam1Returned
    \/ MatchTeam2Returned
    \/ RosterFetchFailed
    \/ RosterParse
    \/ PlayerFetchDone
    \/ RosterFanIn

SpecMatch == InitMatch /\ [][MatchNext]_vars

\* one call of parse_player_row(row, teams, table_index)
InitRow ==
    /\ site = [roster_items |-> 0]
    /\ NetInit
    /\ RosterIdle
    /\ MatchIdle
    /\ row_pc = "call"
    /\ row_out = <<>>
    /\ row_in \in [row : Rows, teams : HeaderTeams, table_index : 0..2]
    /\ ImgIdle
    /\ LiveIdle

SpecRow == InitRow /\ [][RowCall]_vars

\* one image resolution
InitImage ==
    /\ site = [roster_items |-> 0]
    /\ NetInit
    /\ RosterIdle
    /\ MatchIdle
    /\ RowIdle
    /\ LiveIdle
    /\ img_pc = "call"
    /\ img_in \in ImageInputs
    /\ img_out = <<>>

\* one request GET /live
InitLive ==
    /\ site = [roster_items |-> 0]
    /\ NetInit
    /\ RosterIdle
    /\ MatchIdle
    /\ RowIdle
    /\ ImgIdle
    /\ live_pc = "start"
    /\ live_items = <<>>
    /\ live_ret = NoResponse

LiveNext == LiveFetchFailed \/ LiveParse

SpecLive == InitLive /\ [][LiveNext]_vars

ImageNext == ProfileImageCall \/ ItemImageCall \/ NormalizeCall

SpecImage == InitImage /\ [][ImageNext]_vars

Spec == SpecMatch

-----------------------------------------------------------------------------
(* Properties of fetch_team_roster *)

RECURSIVE SumOver(_, _)
SumOver(f, S) ==
    IF S = {} THEN 0
    ELSE LET x == CHOOSE y \in S : TRUE IN f[x] + SumOver(f, S \ {x})

PlayerDocsSent(t) == { d \in DOMAIN sent : d[1] = "player" /\ d[2] = t }

\* the secondary fetch of task k failed: network error, HTTP error status,
\* an exception handed back by the gather, or a profile page without image
FetchFailed(k) ==
    \/ results[k].resp.kind \in {"neterr", "status", "crash"}
    \/ results[k].resp.kind = "page" /\ results[k].resp.page = NoImageProfile

FetchSucceeded(k) ==
    /\ results[k].resp.kind = "page"
    /\ results[k].resp.page = PhotoProfile(results[k].player_id)

RosterReturnedAfterGather == rpc = "returned" /\ task_indices # <<>>

\* C1: when fetch_team_roster returns after a gather, the slot of every
\* failed avatar fetch has an empty avatar, the slot of every fetch that
\* succeeded holds the avatar of that fetch, and the whole first-pass list
\* is returned: as many populated slots as successes, as many empty as failures.
C1_PartialFailure ==
    RosterReturnedAfterGather =>
        /\ Len(roster_ret) = Len(first_pass)
        /\ \A k \in DOMAIN results :
             /\ FetchFailed(k) \/ FetchSucceeded(k)
             /\ FetchFailed(k) => roster_ret[task_indices[k]].img = Empty
             /\ FetchSucceeded(k) =>
                  roster_ret[task_indices[k]].img
                      = Https \o ProfilePhoto(results[k].player_id)
        /\ Cardinality({ k \in DOMAIN results : FetchSucceeded(k) })
             = Cardinality({ i \in DOMAIN roster_ret :
                               NeedsImage(first_pass[i]) /\ roster_ret[i].img # Empty })
        /\ Cardinality({ k \in DOMAIN results : FetchFailed(k) })
             = Cardinality({ i \in DOMAIN roster_ret :
                               NeedsImage(first_pass[i]) /\ roster_ret[i].img = Empty })

\* five players needing avatars, two fetches failed, three succeeded
C1_Witness ==
    /\ RosterReturnedAfterGather
    /\ Len(task_indices) = 5
    /\ Cardinality({ k \in DOMAIN results : FetchFailed(k) }) = 2
    /\ Cardinality({ i \in DOMAIN roster_ret : roster_ret[i].img # Empty }) = 3
    /\ \E k \in DOMAIN results : results[k].resp.kind = "crash"

\* C3: one fetch_team_roster call schedules at most five profile fetches
\* and returns at most five entries, however many roster items the page has.
C3_FetchCap ==
    /\ Len(task_indices) <= 5
    /\ Len(results) <= 5
    /\ SumOver(sent, PlayerDocsSent(roster_team)) <= 5
    /\ Len(player_data_list) <= 5
    /\ Len(roster_ret) <= 5

\* a page with more than five items, five fetches scheduled and joined
C3_Witness ==
    /\ rpc = "returned"
    /\ n_items > 5
    /\ Len(task_indices) = 5
    /\ SumOver(sent, PlayerDocsSent(roster_team)) = 5
    /\ Len(roster_ret) = 5

\* C4: fetches write nothing while they run; the fan-in writes the result of
\* task k only to the slot the task was created for, whose entry holds the
\* identifier that was fetched; no slot has two tasks; names, ids and the
\* avatars of all other entries stay as the first pass left them.
C4_DisjointSlots ==
    /\ \A j, k \in DOMAIN task_indices : task_indices[j] = task_indices[k] => j = k
    /\ rpc = "await" => player_data_list = first_pass
    /\ RosterReturnedAfterGather =>
         /\ DOMAIN roster_ret = DOMAIN first_pass
         /\ \A k \in DOMAIN results :
              /\ task_indices[k] \in DOMAIN roster_ret
              /\ roster_ret[task_indices[k]].id = results[k].player_id
              /\ roster_ret[task_indices[k]].img
                   = IF Usable(results[k].result) THEN results[k].result.val ELSE Empty
         /\ \A i \in DOMAIN roster_ret :
              /\ roster_ret[i].name = first_pass[i].name
              /\ roster_ret[i].id = first_pass[i].id
              /\ (\A k \in DOMAIN task_indices : task_indices[k] # i)
                   => roster_ret[i].img = first_pass[i].img

\* slots and task order differ, and two tasks ended differently
C4_Witness ==
    /\ RosterReturnedAfterGather
    /\ \E j, k \in DOMAIN task_indices :
         /\ j < k
         /\ task_indices[j] # j
         /\ results[j].player_id # results[k].player_id
         /\ Usable(results[k].result) /\ ~Usable(results[j].result)
         /\ roster_ret[task_indices[k]].img # Empty
         /\ roster_ret[task_indices[j]].img = Empty

\* the entry at position i lacked an avatar and had an id after the first pass
LackedAvatar(i) == first_pass[i].img = Empty /\ first_pass[i].id # ""

\* C17: from the gather on, the profile of an entry has been requested, once,
\* exactly if the first pass left the entry without avatar and with an id;
\* every other entry keeps the avatar of the first pass, in the list and in
\* the returned roster.
C17_FetchIffNeeded ==
    rpc \in {"await", "returned"} =>
        \A i \in DOMAIN first_pass :
            /\ Sent(PlayerDoc(roster_team, i)) = (IF LackedAvatar(i) THEN 1 ELSE 0)
            /\ ~LackedAvatar(i) =>
                 /\ player_data_list[i].img = first_pass[i].img
                 /\ rpc = "returned" => roster_ret[i].img = first_pass[i].img

\* a returned roster with an entry that had an avatar, one without id, and
\* one whose avatar the profile fetch supplied
C17_Witness ==
    /\ rpc = "returned"
    /\ \E i \in DOMAIN first_pass :
         /\ first_pass[i].img # Empty
         /\ Sent(PlayerDoc(roster_team, i)) = 0
         /\ roster_ret[i].img = first_pass[i].img
    /\ \E i \in DOMAIN first_pass :
         /\ first_pass[i].id = ""
         /\ Sent(PlayerDoc(roster_team, i)) = 0
         /\ roster_ret[i].img = Empty
    /\ \E i \in DOMAIN first_pass :
         /\ LackedAvatar(i)
         /\ Sent(PlayerDoc(roster_team, i)) = 1
         /\ roster_ret[i].img # Empty

-----------------------------------------------------------------------------
(* Properties of parse_player_row *)

RowReturned == row_pc = "done" /\ row_out # <<>>

\* the integer a stat key holds in the returned row (rating in whole units)
StatOf(key) ==
    IF key = "rating" THEN row_out[1].stats.rating ELSE Num(row_out[1].stats[key] * Scale)

\* keys hold the numbers of the well-formed cells at their own positions,
\* and zero where the row has no cell
PositionalStats ==
    \A i \in DOMAIN stat_keys :
        stat_keys[i] # "kd_diff" =>
            /\ i > Len(row_in.row.cells) => StatOf(stat_keys[i]) = Num(0)
            /\ (i <= Len(row_in.row.cells) /\ row_in.row.cells[i] = PlainCell(i))
                 => StatOf(stat_keys[i]) = Num((10 + i) * Scale)

\* C10: every row in which a name element was found is returned, each stat
\* key holds the value of the cell at its own position, and keys without a
\* cell are zero, for rows of any number of cells.
C10_PositionalStats ==
    (row_pc = "done" /\ row_in.row.name_el) => (RowReturned /\ PositionalStats)

HasInfinityStat(cells) ==
    \E i \in DOMAIN cells :
        /\ i <= Len(stat_keys)
        /\ stat_keys[i] \notin {"rating", "kd_diff"}
        /\ Strip(Without(cells[i], "%")) \in {<<"i", "n", "f">>, <<"-", "i", "n", "f">>}

\* C10 apart from the rows that C11's overflow discards
C10_ExceptOverflow ==
    (row_pc = "done" /\ row_in.row.name_el /\ ~HasInfinityStat(row_in.row.cells))
        => (RowReturned /\ PositionalStats)

\* the cell texts that are not the text of a finite number
UnparsableCells ==
    { <<".">>, <<"a", "b", "c">>, <<"1", ",", "2">>, <<"U+2212", "3">>,
      <<"i", "n", "f">>, <<"-", "i", "n", "f">>, <<"n", "a", "n">> }

\* C11: a row with a name element is returned whatever the texts of its
\* stat cells are; the key of a cell that is not a number stays zero and the
\* keys of the other cells hold their parsed values.
C11_RowNeverDiscarded ==
    (row_pc = "done" /\ row_in.row.name_el) =>
        /\ row_out # <<>>
        /\ \A i \in DOMAIN stat_keys :
             (stat_keys[i] # "kd_diff" /\ i <= Len(row_in.row.cells)) =>
                 /\ row_in.row.cells[i] \in UnparsableCells => StatOf(stat_keys[i]) = Num(0)
                 /\ row_in.row.cells[i] = PlainCell(i)
                      => StatOf(stat_keys[i]) = Num((10 + i) * Scale)

-----------------------------------------------------------------------------
(* Properties of image resolution *)

PlaceholderUrls == {Placeholder, Origin \o Placeholder}

HasRealImage(imgs) ==
    \E i \in DOMAIN imgs : ImgAttr(imgs[i]) \notin {Empty, Placeholder}

\* C13: neither selector chain ever returns the placeholder image as an
\* avatar, whichever strategy finds it, and a fragment without any image
\* other than the placeholder gives the empty string.
C13_NeverPlaceholder ==
    img_pc = "done" =>
        /\ img_in.kind = "profile" =>
             /\ img_out \notin PlaceholderUrls
             /\ ~HasRealImage(img_in.page.header_imgs \o img_in.page.photo_imgs)
                  => img_out = Empty
        /\ img_in.kind = "item" =>
             /\ img_out \notin PlaceholderUrls
             /\ (~HasRealImage(img_in.item.imgs) /\ img_in.item.bg = Empty)
                  => img_out = Empty

\* the rule every site is said to follow
Normalized(src) ==
    IF StartsWith(src, <<"/", "/">>) THEN Https \o src
    ELSE IF StartsWith(src, <<"/">>) THEN Origin \o src
    ELSE src

\* C16: the four normalisation sites give the same URL for every source:
\* "https:" before a source that starts with //, the origin before one that
\* starts with a single /, an absolute or empty source unchanged.
C16_SameNormalization ==
    (img_pc = "done" /\ img_in.kind = "src") =>
        /\ img_out.logo = img_out.row
        /\ img_out.row = img_out.profile
        /\ img_out.profile = img_out.roster
        /\ (img_in.src = Empty \/ StartsWith(img_in.src, <<"/">>)
              \/ StartsWith(img_in.src, Http))
             => img_out.profile = Normalized(img_in.src)

-----------------------------------------------------------------------------
(* Properties of get_live_matches *)

\* the eta element of the item says "live", in any letter case
SaysLive(item) ==
    /\ item.eta_el
    /\ \E k \in 1..(Len(item.eta) - 3) :
         /\ item.eta[k] \in {"l", "L"} /\ item.eta[k + 1] \in {"i", "I"}
         /\ item.eta[k + 2] \in {"v", "V"} /\ item.eta[k + 3] \in {"e", "E"}

\* the item of the page a returned record was made of; the event names the
\* position, and the item without event element is the second
SourceOf(record) ==
    IF record.event = "" THEN 2
    ELSE CHOOSE i \in DOMAIN live_items : live_items[i].event = record.event

\* C14: once the home page was fetched the request returns; every returned
\* record comes from an item whose eta element says "live", items without
\* eta element give no record, and every record has status "LIVE", an id
\* and two teams, those of its item.
C14_OnlyLiveItems ==
    (LiveDoc \in DOMAIN answered /\ answered[LiveDoc] = "ok") =>
        /\ live_pc = "done"
        /\ live_ret.kind = "ok"
        /\ Len(live_ret.live_matches)
             <= Cardinality({ i \in DOMAIN live_items : SaysLive(live_items[i]) })
        /\ \A k \in DOMAIN live_ret.live_matches :
             LET record == live_ret.live_matches[k]
                 item == live_items[SourceOf(record)]
             IN  /\ SaysLive(item)
                 /\ record.status = "LIVE"
                 /\ record.id # Empty
                 /\ Len(item.team_items) = 2
                 /\ record.team1.name = item.team_items[1].name
                 /\ record.team2.name = item.team_items[2].name

\* a live item returned next to an item without eta element
C14_Witness ==
    /\ live_pc = "done"
    /\ Len(live_items) = 2
    /\ ~live_items[1].eta_el
    /\ live_items[2].eta = <<" ", "L", "i", "v", "e", " ">>
    /\ Len(live_ret.live_matches) = 1
    /\ live_ret.live_matches[1].id = <<"4", "2">>

-----------------------------------------------------------------------------
(* Properties of get_match *)

IsPlayerDoc(d) == d[1] = "player"

\* the avatar fetches this step issues
IssuedNow ==
    { d \in DOMAIN sent' : IsPlayerDoc(d) /\ (d \notin DOMAIN sent \/ sent'[d] > sent[d]) }

\* C2 as claimed: every avatar fetch of the request is issued before any
\* avatar fetch of the request has completed, also across the two teams.
C2_AllIssuedConcurrently ==
    [][IssuedNow # {} => \A d \in DOMAIN answered : ~IsPlayerDoc(d)]_vars

\* C2 amended: the avatar fetches of one roster are issued in one step, all
\* of them and before any of them completes; those of team 2 are issued only
\* after every avatar fetch of team 1 has completed.
C2_BatchPerRoster ==
    [][IssuedNow # {} =>
          /\ IssuedNow = { PlayerDoc(roster_team, i) :
                             i \in { j \in DOMAIN player_data_list' :
                                       NeedsImage(player_data_list'[j]) } }
          /\ \A d \in DOMAIN answered : ~(IsPlayerDoc(d) /\ d[2] = roster_team)
          /\ roster_team = 2 =>
               \A d \in DOMAIN sent : (IsPlayerDoc(d) /\ d[2] = 1) => d \in DOMAIN answered
      ]_vars

\* two avatar fetches of team 2 in flight after one of team 1 has completed
C2_Witness ==
    /\ pc = "team2"
    /\ rpc = "await"
    /\ Cardinality({ d \in DOMAIN sent : IsPlayerDoc(d) /\ d[2] = 2
                                          /\ d \notin DOMAIN answered }) >= 2
    /\ \E d \in DOMAIN answered : IsPlayerDoc(d) /\ d[2] = 1

UpcomingDone == pc = "done" /\ response.is_upcoming
CompletedDone == pc = "done" /\ ~response.is_upcoming

\* the placeholder players of team t in the returned record
ReturnedPlayers(t) ==
    LET players == IF response.maps = <<>> THEN <<>> ELSE response.maps[1].players
        n1 == Min(LineupSize, Len(team1_roster))
    IN  IF t = 1 THEN SubSeq(players, 1, n1) ELSE SubSeq(players, n1 + 1, Len(players))

FailedSlots(t) ==
    { d[3] : d \in { e \in DOMAIN answered :
                       IsPlayerDoc(e) /\ e[2] = t /\ answered[e] = "failed" } }

\* C5: no document is requested twice within a request, and the slot of a
\* failed profile fetch has an empty avatar from the failure on: in the
\* running roster call, in the roster handed to get_match, and in the record
\* get_match returns.
C5_NoRetry ==
    /\ \A d \in DOMAIN sent : sent[d] <= 1
    /\ rpc \in {"await", "returned"} =>
         \A k \in DOMAIN results :
             (results[k].done /\ Outcome(results[k].resp) = "failed")
                 => player_data_list[task_indices[k]].img = Empty
    /\ pc \in {"team2", "done"} =>
         \A i \in FailedSlots(1) : team1_roster[i].img = Empty
    /\ pc = "done" =>
         /\ \A i \in FailedSlots(2) : team2_roster[i].img = Empty
         /\ \A t \in 1..2 : \A i \in FailedSlots(t) : ReturnedPlayers(t)[i].img = Empty

\* a returned record after a failed profile fetch in each team's roster
C5_Witness ==
    /\ UpcomingDone
    /\ FailedSlots(1) # {} /\ FailedSlots(2) # {}
    /\ Sent(MatchDoc) = 1 /\ Sent(TeamDoc(1)) = 1 /\ Sent(TeamDoc(2)) = 1
    /\ \E d \in DOMAIN answered : IsPlayerDoc(d) /\ answered[d] = "ok"

\* the names the inline nodes give team t
InlineNames(t) ==
    { player_containers[i] : i \in { j \in DOMAIN player_containers :
                                        player_containers[j] # "" /\ (j - 1) % 2 = t - 1 } }

AllInlineNames == InlineNames(1) \cup InlineNames(2)

ReturnedNames(t) == { ReturnedPlayers(t)[i].name : i \in DOMAIN ReturnedPlayers(t) }

\* C6 as claimed: if the inline nodes yield any player, no team roster page
\* is fetched and all placeholder players are inline ones; the record never
\* holds both inline players and players of a fetched roster.
C6_SingleMethod ==
    /\ AllInlineNames # {} => (Sent(TeamDoc(1)) = 0 /\ Sent(TeamDoc(2)) = 0)
    /\ UpcomingDone =>
         \/ ReturnedNames(1) \cup ReturnedNames(2) \subseteq AllInlineNames
         \/ (ReturnedNames(1) \cup ReturnedNames(2)) \cap AllInlineNames = {}

TeamIdKnown(t) == Len(team_ids) >= t /\ team_ids[t] # ""

\* C6 amended: the method is chosen per team.  A team's roster page is
\* fetched, once, exactly when the inline nodes yield no player for that team
\* and its id is known; the players of a team are all inline ones (without id
\* and avatar) or all from its fetched roster.
C6_MethodPerTeam ==
    UpcomingDone =>
        \A t \in 1..2 :
            /\ Sent(TeamDoc(t)) = (IF InlineNames(t) = {} /\ TeamIdKnown(t) THEN 1 ELSE 0)
            /\ InlineNames(t) # {} =>
                 /\ ReturnedNames(t) = InlineNames(t)
                 /\ \A i \in DOMAIN ReturnedPlayers(t) :
                      ReturnedPlayers(t)[i].id = "" /\ ReturnedPlayers(t)[i].img = Empty
            /\ InlineNames(t) = {} => ReturnedNames(t) \cap AllInlineNames = {}

\* inline players of team 1 next to fetched players of team 2
C6_Witness ==
    /\ UpcomingDone
    /\ InlineNames(1) # {} /\ InlineNames(2) = {}
    /\ Sent(TeamDoc(1)) = 0 /\ Sent(TeamDoc(2)) = 1
    /\ ReturnedNames(1) # {} /\ ReturnedNames(2) # {}

\* C7: an upcoming result has no maps or only the Roster placeholder; every
\* map of a completed result has a non-empty name.
C7_MapNames ==
    pc = "done" =>
        IF response.is_upcoming
        THEN \/ response.maps = <<>>
             \/ Len(response.maps) = 1 /\ response.maps[1].map = RosterMap
        ELSE \A i \in DOMAIN response.maps : response.maps[i].map # Empty

Tbd == <<"t", "b", "d">>

\* the name get_text(strip=True) reads from block b, "" without name element
BlockText(b) ==
    IF map_containers[b].name_el THEN Strip(map_containers[b].name_text) ELSE Empty

\* C8: no map named "tbd" in any letter case is returned, and such blocks
\* are not counted in map_count.
C8_TbdExcluded ==
    CompletedDone =>
        /\ \A i \in DOMAIN response.maps : Lower(response.maps[i].map) # Tbd
        /\ response.map_count
             <= Cardinality({ b \in DOMAIN map_containers : Lower(BlockText(b)) # Tbd })

IsAggregate(b) == Lower(BlockText(b)) = <<"a", "l", "l", " ", "m", "a", "p", "s">>

\* C9: every block named "all maps" in any letter case is returned, in its
\* place, under the name "All Maps"; map_count is the number of blocks that
\* are neither that aggregate nor named like the placeholder, "Roster".
C9_AllMapsKept ==
    CompletedDone =>
        /\ Len(response.maps) = Len(map_containers)
        /\ \A b \in DOMAIN map_containers :
             IsAggregate(b) <=> response.maps[b].map = AllMaps
        /\ response.map_count
             = Cardinality({ b \in DOMAIN map_containers :
                               ~IsAggregate(b) /\ BlockText(b) # RosterMap })

\* an aggregate block in capitals next to a played map
C9_Witness ==
    /\ CompletedDone
    /\ Len(map_containers) = 2
    /\ map_containers[1].name_text = <<"B", "i", "n", "d">>
    /\ map_containers[2].name_text = <<"A", "L", "L", " ", "M", "A", "P", "S">>
    /\ response.maps[2].map = AllMaps
    /\ response.map_count = 1

PrimaryFetchFailed == MatchDoc \in DOMAIN answered /\ answered[MatchDoc] = "failed"

\* C12: get_match ends in an error exactly when the fetch of the match page
\* failed; whenever the page was fetched a record is returned, whatever
\* elements the page lacks.
C12_ErrorIffFetchFailed ==
    pc \in {"done", "raised"} => (response.kind = "error" <=> PrimaryFetchFailed)

\* the rows of a table that have a name element
NamedRows(table) == SelectSeq(table, LAMBDA row : row.name_el)

\* the number of rows with a name element in the tables before the k-th
RECURSIVE RowsBefore(_, _)
RowsBefore(tables, k) ==
    IF k = 1 THEN 0
    ELSE RowsBefore(tables, k - 1) + Len(NamedRows(tables[k - 1]))

\* the header team of the k-th table of a block, k from 1
TableTeam(k) == IF k <= Len(teams) THEN teams[k].name ELSE "Unknown"

\* C15: in a completed match the players of a map are the named rows of
\* its tables in order, and each carries the name of the header team at its
\* table's position, "Unknown" where the header has no such team, whatever
\* the name in the row is.
C15_TeamByTablePosition ==
    CompletedDone =>
        \A b \in DOMAIN map_containers :
            LET tables == map_containers[b].tables
                players == response.maps[b].players
            IN  /\ Len(players) = RowsBefore(tables, Len(tables) + 1)
                /\ \A k \in DOMAIN tables : \A r \in DOMAIN NamedRows(tables[k]) :
                     LET player == players[RowsBefore(tables, k) + r]
                     IN  /\ player.name = NamedRows(tables[k])[r].name
                         /\ player.team = TableTeam(k)

\* a row named like the second team in the first table, and a row of a
\* second table under a header with one team
C15_Witness ==
    /\ CompletedDone
    /\ Len(teams) = 1
    /\ Len(map_containers[1].tables) >= 2
    /\ response.maps[1].players[1].name = "Sentinels"
    /\ response.maps[1].players[1].team = "LOUD"
    /\ response.maps[1].players[2].team = "Unknown"

====
